---- MODULE Spec2Model ----
(***************************************************************************)
(* TodoSync: reconciliation of a date-sectioned Todo note with a Google    *)
(* calendar.  The model follows the modular sources (tasks / calendar /    *)
(* plugin): the parser is computed character by character, a pass          *)
(* (syncTasks) is cut at its awaits, and the two triggers (interval timer  *)
(* and manual command) may start passes that overlap.                      *)
(*                                                                         *)
(* A string is a sequence of one-character strings; the character U+6708   *)
(* (month) is written "Mo" and U+65E5 (day) is written "Dy".               *)
(***************************************************************************)
EXTENDS Naturals, Sequences, FiniteSets, TLC

\* ------------------------------------------------------------------ strings

Digits == {"0", "1", "2", "3", "4", "5", "6", "7", "8", "9"}

WhiteSpace == {" ", "\t"}

IsDigit(c) == c \in Digits

IsDigitsAt(s, i, n) == i + n - 1 <= Len(s) /\ \A k \in i..(i + n - 1) : IsDigit(s[k])

StartsWith(s, p) == Len(p) <= Len(s) /\ SubSeq(s, 1, Len(p)) = p

RECURSIVE TrimStart(_)
TrimStart(s) ==
    IF s # <<>> /\ Head(s) \in WhiteSpace THEN TrimStart(Tail(s)) ELSE s

RECURSIVE TrimEnd(_)
TrimEnd(s) ==
    IF s # <<>> /\ s[Len(s)] \in WhiteSpace THEN TrimEnd(SubSeq(s, 1, Len(s) - 1)) ELSE s

\* String.prototype.trim
Trim(s) == TrimEnd(TrimStart(s))

\* a padStart that pads nothing
PadStart2_None(s) == s

\* String.prototype.padStart(2, "0")
PadStart2(s) == IF Len(s) < 2 THEN <<"0">> \o s ELSE s

\* s.split("T")[0]: the part of s before its first "T" (all of s when it has none)
BeforeT(s) ==
    IF \E i \in DOMAIN s : s[i] = "T"
    THEN SubSeq(s, 1, (CHOOSE i \in DOMAIN s : s[i] = "T" /\ \A j \in 1..(i - 1) : s[j] # "T") - 1)
    ELSE s

\* s.includes("T")
IncludesT(s) == \E i \in DOMAIN s : s[i] = "T"

\* ------------------------------------------------ insertion-ordered objects
\* A JavaScript object with string keys, as the sequence of its <<key, value>>
\* entries in insertion order; assigning to a key it has keeps the key's place.

ObjHas(o, k) == \E i \in DOMAIN o : o[i][1] = k

ObjGet(o, k) == o[CHOOSE i \in DOMAIN o : o[i][1] = k][2]

ObjSet(o, k, v) ==
    IF ObjHas(o, k)
    THEN [i \in DOMAIN o |-> IF o[i][1] = k THEN <<k, v>> ELSE o[i]]
    ELSE Append(o, <<k, v>>)

\* --------------------------------------------------------- getMonthlyTodoFile
\* A vault is [rootFolders, yearFolders, files]: the names of the folders of the
\* vault root, of the folders of Todo, and, in their order, of the files of the
\* folder of the configured year.

TodoName == <<"T", "o", "d", "o">>

\* "Mo.md": the end of `${month}Mo.md`
MonthFileEnd == <<"Mo", ".", "m", "d">>

NoFile == <<>>

RECURSIVE StripZeros(_)
StripZeros(s) == IF Len(s) > 1 /\ Head(s) = "0" THEN StripZeros(Tail(s)) ELSE s

RECURSIVE DigitPrefix(_)
DigitPrefix(s) == IF s # <<>> /\ IsDigit(Head(s)) THEN <<Head(s)>> \o DigitPrefix(Tail(s)) ELSE <<>>

\* `${parseInt(month, 10)}` for a month without sign
NumericMonth(month) ==
    IF DigitPrefix(TrimStart(month)) = <<>> THEN <<"N", "a", "N">> ELSE StripZeros(DigitPrefix(TrimStart(month)))

possibleFilenames(month) == {month \o MonthFileEnd, NumericMonth(month) \o MonthFileEnd}

getMonthlyTodoFile(vault, year, month) ==
    IF TodoName \notin vault.rootFolders THEN NoFile
    ELSE IF year \notin vault.yearFolders THEN NoFile
    ELSE IF \E k \in DOMAIN vault.files : vault.files[k] \in possibleFilenames(month)
    THEN vault.files[CHOOSE k \in DOMAIN vault.files :
                        /\ vault.files[k] \in possibleFilenames(month)
                        /\ \A j \in DOMAIN vault.files : j < k => vault.files[j] \notin possibleFilenames(month)]
    ELSE NoFile

\* ------------------------------------------------------------------ parseDate

NoDate == [ok |-> FALSE, month |-> <<>>, day |-> <<>>]

\* the length (2, 1 or 0) of the \d{1,2} that starts at s[i], taken greedily
DigitRun2(s, i) == IF IsDigitsAt(s, i, 2) THEN 2 ELSE IF IsDigitsAt(s, i, 1) THEN 1 ELSE 0

\* first alternative of dateRegex: ^\d{4}-\d{1,2}-\d{1,2}$
MatchFullDate(s) ==
    IF IsDigitsAt(s, 1, 4) /\ Len(s) >= 5 /\ s[5] = "-"
    THEN LET m == DigitRun2(s, 6)
             p == 6 + m
         IN  IF m > 0 /\ p <= Len(s) /\ s[p] = "-"
             THEN LET d == DigitRun2(s, p + 1)
                  IN  IF d > 0 /\ p + d = Len(s)
                      THEN [ok |-> TRUE, month |-> SubSeq(s, 6, p - 1), day |-> SubSeq(s, p + 1, p + d)]
                      ELSE NoDate
             ELSE NoDate
    ELSE NoDate

\* \d{1,2}[/-Mo]\d{1,2}Dy?$ matched from s[i] to the end of s
MatchMonthDayAt(s, i) ==
    LET m == DigitRun2(s, i)
        p == i + m
    IN  IF m > 0 /\ p <= Len(s) /\ s[p] \in {"/", "-", "Mo"}
        THEN LET d == DigitRun2(s, p + 1)
                 e == p + d
             IN  IF d > 0 /\ (e = Len(s) \/ (e + 1 = Len(s) /\ s[e + 1] = "Dy"))
                 THEN [ok |-> TRUE, month |-> SubSeq(s, i, p - 1), day |-> SubSeq(s, p + 1, e)]
                 ELSE NoDate
        ELSE NoDate

\* second alternative of dateRegex: ^(?:\d{4}[/-])?(\d{1,2})[/-Mo](\d{1,2})Dy?$
MatchMonthDay(s) ==
    IF IsDigitsAt(s, 1, 4) /\ Len(s) >= 5 /\ s[5] \in {"/", "-"} /\ MatchMonthDayAt(s, 6).ok
    THEN MatchMonthDayAt(s, 6)
    ELSE MatchMonthDayAt(s, 1)

parseDate(dateString) ==
    LET trimmed == Trim(dateString)
        full == MatchFullDate(trimmed)
        md == MatchMonthDay(trimmed)
    IN  IF full.ok
        THEN [ok |-> TRUE, month |-> PadStart2(full.month), day |-> PadStart2(full.day)]
        ELSE IF md.ok
        THEN [ok |-> TRUE, month |-> PadStart2(md.month), day |-> PadStart2(md.day)]
        ELSE NoDate

\* ------------------------------------------------------------- splitByDates

NotesKey == <<"N", "o", "t", "e", "s">>

HeaderMark == <<"#", "#", " ">>

\* line.replace("## ", "").trim() of a line that starts with "## "
HeaderText(line) == Trim(SubSeq(line, 4, Len(line)))

RECURSIVE SplitLoop(_, _, _, _)
SplitLoop(lines, i, sections, currentDate) ==
    IF i > Len(lines) THEN sections
    ELSE LET line == lines[i] IN
         IF StartsWith(line, HeaderMark)
         THEN SplitLoop(lines, i + 1, ObjSet(sections, HeaderText(line), <<>>), HeaderText(line))
         ELSE IF currentDate # <<>>
         THEN SplitLoop(lines, i + 1,
                        ObjSet(sections, currentDate, Append(ObjGet(sections, currentDate), Trim(line))),
                        currentDate)
         ELSE SplitLoop(lines, i + 1,
                        ObjSet(sections, NotesKey,
                               Append(IF ObjHas(sections, NotesKey) THEN ObjGet(sections, NotesKey) ELSE <<>>,
                                      line)),
                        currentDate)

\* content.split("\n") is the argument: a document is the sequence of its lines
splitByDates(lines) == SplitLoop(lines, 1, <<>>, <<>>)

\* ------------------------------------------------------ extractTasksWithTime

OpenMark == <<"-", " ", "[", " ", "]">>

DoneMark == <<"-", " ", "[", "x", "]">>

IsTaskLine(line) == StartsWith(line, OpenMark) \/ StartsWith(line, DoneMark)

RECURSIVE SkipSpaces(_, _)
\* the first index from j on that holds no white space (Len(s) + 1 when none does)
SkipSpaces(s, j) == IF j <= Len(s) /\ s[j] \in WhiteSpace THEN SkipSpaces(s, j + 1) ELSE j

\* a time pattern without the minutes: \d{1,2}
ClockLen_HoursOnly(s, i) == DigitRun2(s, i)

\* the length of \d{1,2}(?::\d{2})? at s[i], taken greedily (0: no match)
ClockLen(s, i) ==
    LET k == DigitRun2(s, i)
    IN  IF k = 0 THEN 0
        ELSE IF i + k <= Len(s) /\ s[i + k] = ":" /\ IsDigitsAt(s, i + k + 1, 2) THEN k + 3
        ELSE k

NoTime == [has |-> FALSE, start |-> <<>>, end |-> <<>>]

\* timeRegex anchored at s[i]: (\d{1,2}(?::\d{2})?)\s*(?:~|-)\s*(\d{1,2}(?::\d{2})?)
MatchTimeAt(s, i) ==
    LET n1 == ClockLen(s, i)
        j == SkipSpaces(s, i + n1)
        j2 == SkipSpaces(s, j + 1)
        n2 == ClockLen(s, j2)
    IN  IF n1 > 0 /\ j <= Len(s) /\ s[j] \in {"~", "-"} /\ n2 > 0
        THEN [has |-> TRUE, start |-> SubSeq(s, i, i + n1 - 1), end |-> SubSeq(s, j2, j2 + n2 - 1)]
        ELSE NoTime

\* taskText.match(timeRegex): the leftmost match
MatchTime(s) ==
    IF \E i \in DOMAIN s : MatchTimeAt(s, i).has
    THEN MatchTimeAt(s, CHOOSE i \in DOMAIN s :
                            MatchTimeAt(s, i).has /\ \A k \in 1..(i - 1) : ~MatchTimeAt(s, k).has)
    ELSE NoTime

\* the callback of .map(): one task line to one task
TaskOfLine(line) ==
    LET taskText == TrimStart(SubSeq(line, 6, Len(line)))
    IN  [task |-> Trim(taskText),
         completed |-> StartsWith(line, DoneMark),
         time |-> MatchTime(taskText)]

\* a filter that lets no task with an empty description through
RECURSIVE extractTasksWithTime_DropsEmpty(_)
extractTasksWithTime_DropsEmpty(lines) ==
    IF lines = <<>> THEN <<>>
    ELSE IF IsTaskLine(Head(lines)) /\ TaskOfLine(Head(lines)).task # <<>>
    THEN <<TaskOfLine(Head(lines))>> \o extractTasksWithTime_DropsEmpty(Tail(lines))
    ELSE extractTasksWithTime_DropsEmpty(Tail(lines))

RECURSIVE extractTasksWithTime(_)
extractTasksWithTime(lines) ==
    IF lines = <<>> THEN <<>>
    ELSE IF IsTaskLine(Head(lines))
    THEN <<TaskOfLine(Head(lines))>> \o extractTasksWithTime(Tail(lines))
    ELSE extractTasksWithTime(Tail(lines))

\* --------------------------------------------------------- parseTasksFromFile

Dash == <<"-">>

\* `${year}-${month}-${day}`
DateString(year, pd) == year \o Dash \o pd.month \o Dash \o pd.day

\* a loop that ends at the first section whose header is no date
RECURSIVE ParseLoop_StopsAtInvalid(_, _, _, _)
ParseLoop_StopsAtInvalid(sections, i, parsedTasks, nowYear) ==
    IF i > Len(sections) THEN parsedTasks
    ELSE IF ~parseDate(sections[i][1]).ok THEN parsedTasks
    ELSE ParseLoop_StopsAtInvalid(sections, i + 1,
                                  ObjSet(parsedTasks, DateString(nowYear, parseDate(sections[i][1])),
                                         extractTasksWithTime(sections[i][2])),
                                  nowYear)

RECURSIVE ParseLoop(_, _, _, _)
ParseLoop(sections, i, parsedTasks, nowYear) ==
    IF i > Len(sections) THEN parsedTasks
    ELSE LET date == sections[i][1]
             lines == sections[i][2]
             parsedDate == parseDate(date)
         IN  IF ~parsedDate.ok
             THEN ParseLoop(sections, i + 1, parsedTasks, nowYear)
             ELSE ParseLoop(sections, i + 1,
                            ObjSet(parsedTasks, DateString(nowYear, parsedDate), extractTasksWithTime(lines)),
                            nowYear)

\* nowYear is new Date().getFullYear().toString(), read inside the function
parseTasksFromFile(content, nowYear) == ParseLoop(splitByDates(content), 1, <<>>, nowYear)

\* --------------------------------------------------------------- the calendar
\* A stored event is [id, summary, start, end, by]: start and end are
\* [dateTime, date] with <<>> for an absent field, and by is bookkeeping the
\* program never reads (0: not created by a pass, n: created by pass n).

NoStamp == [dateTime |-> <<>>, date |-> <<>>]

\* the id of an event the listing returns without one (event.id is undefined)
NoId == 0

\* the .map() of fetchEventsFromCalendar: absent fields become ""
fetchEventsFromCalendar(cal) ==
    {[id |-> e.id, summary |-> e.summary, start |-> e.start, end |-> e.end, by |-> e.by] : e \in cal}

\* event.start.dateTime || event.start.date || ""
StartRaw(e) == IF e.start.dateTime # <<>> THEN e.start.dateTime ELSE e.start.date

EventDate(e) == BeforeT(StartRaw(e))

\* ------------------------------------------------------------------ syncTasks

\* the (date, task) pairs in the order of the two nested for loops
RECURSIVE FlatTasks(_)
FlatTasks(tasksByDate) ==
    IF tasksByDate = <<>> THEN <<>>
    ELSE [k \in DOMAIN Head(tasksByDate)[2] |-> [date |-> Head(tasksByDate)[1], t |-> Head(tasksByDate)[2][k]]]
         \o FlatTasks(Tail(tasksByDate))

\* `${year}-${parsedDate.month}-${parsedDate.day}`
TargetDateStr(year, date) == DateString(year, parseDate(date))

\* the duplicate test of syncTasks, on the events fetched when the pass began
IsDuplicateSync(existingEvents, task, targetDateStr) ==
    \E event \in existingEvents :
        /\ StartRaw(event) # <<>>
        /\ Trim(event.summary) = Trim(task)
        /\ EventDate(event) = targetDateStr

\* whether the loop body calls addEventToCalendar for entry k of the flat list
CallsAdd(year, existingEvents, entry) ==
    /\ parseDate(entry.date).ok
    /\ ~entry.t.completed
    /\ ~IsDuplicateSync(existingEvents, entry.t.task, TargetDateStr(year, entry.date))

\* the first entry from index `from` on for which addEventToCalendar is called (0: none)
NextAdd(year, existingEvents, flat, from) ==
    IF \E k \in from..Len(flat) : CallsAdd(year, existingEvents, flat[k])
    THEN CHOOSE k \in from..Len(flat) :
            /\ CallsAdd(year, existingEvents, flat[k])
            /\ \A j \in from..(k - 1) : ~CallsAdd(year, existingEvents, flat[j])
    ELSE 0

TSuffix == <<":", "0", "0">>

\* the timeInfo argument syncTasks builds for a task
TimeInfo(year, entry) ==
    LET d == TargetDateStr(year, entry.date)
    IN  IF entry.t.time.has
        THEN [start |-> d \o <<"T">> \o entry.t.time.start \o TSuffix,
              end |-> IF entry.t.time.end # <<>> THEN d \o <<"T">> \o entry.t.time.end \o TSuffix ELSE <<>>]
        ELSE [start |-> d, end |-> <<>>]

\* addEventToCalendar without its own duplicate test
IsDuplicateAdd_Missing(existingEvents, task, timeInfo) == FALSE

\* the duplicate test of addEventToCalendar, on the events it has just fetched
IsDuplicateAdd(existingEvents, task, timeInfo) ==
    \E event \in existingEvents :
        /\ Trim(event.summary) = Trim(task)
        /\ EventDate(event) = BeforeT(timeInfo.start)

\* new Date(new Date(start).getTime() + 60 * 60 * 1000).toISOString(), kept symbolic
OneHourLater(start) == <<"+1h">> \o start

\* the request body addEventToCalendar builds
RequestBody(task, timeInfo) ==
    IF IncludesT(timeInfo.start)
    THEN [summary |-> task,
          start |-> [dateTime |-> timeInfo.start, date |-> <<>>],
          end |-> [dateTime |-> IF timeInfo.end # <<>> THEN timeInfo.end ELSE OneHourLater(timeInfo.start),
                   date |-> <<>>]]
    ELSE [summary |-> task,
          start |-> [dateTime |-> <<>>, date |-> timeInfo.start],
          end |-> [dateTime |-> <<>>, date |-> IF timeInfo.end # <<>> THEN timeInfo.end ELSE timeInfo.start]]

\* tasksByDate[eventDate] || []
TasksOnDate(tasksByDate, eventDate) ==
    IF ObjHas(tasksByDate, eventDate) THEN ObjGet(tasksByDate, eventDate) ELSE <<>>

\* tasksOnDate.find((t) => t.task === event.summary) finds a task
HasMatchingTask(tasksOnDate, event) == \E k \in DOMAIN tasksOnDate : tasksOnDate[k].task = event.summary

MatchingTask(tasksOnDate, event) ==
    tasksOnDate[CHOOSE k \in DOMAIN tasksOnDate :
                    /\ tasksOnDate[k].task = event.summary
                    /\ \A j \in 1..(k - 1) : tasksOnDate[j].task # event.summary]

\* step 5 without its branch for completed tasks
DeletesEvent_OnlyUnmatched(tasksByDate, event) ==
    ~HasMatchingTask(TasksOnDate(tasksByDate, EventDate(event)), event)

\* step 5 without its branch for events that have no task
DeletesEvent_OnlyCompleted(tasksByDate, event) ==
    LET tasksOnDate == TasksOnDate(tasksByDate, EventDate(event))
    IN  HasMatchingTask(tasksOnDate, event) /\ MatchingTask(tasksOnDate, event).completed

\* the two branches of step 5 that call deleteEventFromCalendar
DeletesEvent(tasksByDate, event) ==
    LET tasksOnDate == TasksOnDate(tasksByDate, EventDate(event))
    IN  IF HasMatchingTask(tasksOnDate, event)
        THEN MatchingTask(tasksOnDate, event).completed
        ELSE TRUE

\* ------------------------------------------------------------------ the inputs

MaxPasses == 2

MaxEdits == 1

MaxFailures == 1

MaxInitEvents == 1

MaxInitOverlap == 0

Year2025 == <<"2", "0", "2", "5">>

Year2026 == <<"2", "0", "2", "6">>

Jan27 == <<"-", "0", "1", "-", "2", "7">>

Jan28 == <<"-", "0", "1", "-", "2", "8">>

H(text) == HeaderMark \o text

OpenLine(body) == OpenMark \o <<" ">> \o body

DoneLine(body) == DoneMark \o <<" ">> \o body

\* the notes a pass may find in Todo/<year>/<month>
Documents ==
    << \* ## 1/27 | - [ ] a | - [x] b
       <<H(<<"1", "/", "2", "7">>), OpenLine(<<"a">>), DoneLine(<<"b">>)>>,
       \* ## 2025-1-27 | - [ ] a 9-10 | prose | - [ ] a
       <<H(<<"2", "0", "2", "5", "-", "1", "-", "2", "7">>), OpenLine(<<"a", " ", "9", "-", "1", "0">>),
         <<"p", "r", "o", "s", "e">>, OpenLine(<<"a">>)>>,
       \* ## 1/27 | - [x] a | - [ ] a
       <<H(<<"1", "/", "2", "7">>), DoneLine(<<"a">>), OpenLine(<<"a">>)>>,
       \* ## 1Mo28Dy | - [ ] a | - [ ] a | ## memo | - [ ] b
       <<H(<<"1", "Mo", "2", "8", "Dy">>), OpenLine(<<"a">>), OpenLine(<<"a">>),
         H(<<"m", "e", "m", "o">>), OpenLine(<<"b">>)>> >>

\* the note of the end-to-end scenario: ## 2025-1-27 | - [ ] Dentist (14:00-15:00) | - [x] Gym
DentistTask == <<"D", "e", "n", "t", "i", "s", "t", " ", "(", "1", "4", ":", "0", "0", "-", "1", "5", ":", "0", "0", ")">>

DentistDocument ==
    <<H(<<"2", "0", "2", "5", "-", "1", "-", "2", "7">>), OpenLine(DentistTask), DoneLine(<<"G", "y", "m">>)>>

\* the note the README gives as the format: ## 2024/12 | - [ ] Example Task (12:00 - 13:00) | - [x] Completed Task
ExampleTask ==
    <<"E", "x", "a", "m", "p", "l", "e", " ", "T", "a", "s", "k", " ", "(", 
       "1", "2", ":", "0", "0", " ", "-", " ", "1", "3", ":", "0", "0", ")">>

ReadmeDocument ==
    <<H(<<"2", "0", "2", "4", "/", "1", "2">>), OpenLine(ExampleTask),
      DoneLine(<<"C", "o", "m", "p", "l", "e", "t", "e", "d", " ", "T", "a", "s", "k">>)>>

AllDay(summary, date) ==
    [summary |-> summary, start |-> [dateTime |-> <<>>, date |-> date], end |-> [dateTime |-> <<>>, date |-> date]]

Timed(summary, from, to) ==
    [summary |-> summary, start |-> [dateTime |-> from, date |-> <<>>], end |-> [dateTime |-> to, date |-> <<>>]]

\* the events the calendar may hold before the first pass
InitShapes ==
    << AllDay(<<"a">>, Year2026 \o Jan27),
       AllDay(<<"a">>, Year2025 \o Jan27),
       AllDay(<<"a", " ">>, Year2026 \o Jan27),
       Timed(<<"a">>, Year2026 \o Jan27 \o <<"T", "0", "9", ":", "0", "0", ":", "0", "0", "+", "0", "9", ":", "0", "0">>,
                      Year2026 \o Jan27 \o <<"T", "1", "0", ":", "0", "0", ":", "0", "0", "+", "0", "9", ":", "0", "0">>),
       AllDay(<<"b">>, Year2026 \o Jan27),
       AllDay(<<"a">>, Year2026 \o Jan28) >>

Stored(shape, id, by) ==
    [id |-> id, summary |-> shape.summary, start |-> shape.start, end |-> shape.end, by |-> by]

\* the calendars of at most max events, the same shape allowed twice
InitCalendars(max) ==
    {{Stored(InitShapes[sel[k]], k, 0) : k \in DOMAIN sel} :
        sel \in {q \in UNION {[1..n -> DOMAIN InitShapes] : n \in 0..max} :
                    \A k \in 1..(Len(q) - 1) : q[k] <= q[k + 1]}}

Triggers == {"timer", "manual"}

\* the section headers parseDate is called with: an optional year, a month, a
\* separator, a day and an optional Dy, and some texts of other forms
YearPrefixes == {<<>>, Year2025 \o <<"-">>, Year2025 \o <<"/">>}

MonthTokens == {<<"1">>, <<"0", "1">>, <<"1", "2">>}

DayTokens == {<<"7">>, <<"2", "7">>}

OtherHeaders ==
    {<<>>, <<"m", "e", "m", "o">>, <<"2", "0", "2", "4", "/", "1", "2">>, <<" ", "1", "/", "2", "7", " ">>, <<"1", "/", "1", "2", "7">>, <<"1", "/", "2", "7", "/">>, <<"1", "2", "7">>}

HeaderTexts ==
    {y \o m \o <<x>> \o d \o z :
        y \in YearPrefixes, m \in MonthTokens, x \in {"/", "-", "Mo"}, d \in DayTokens, z \in {<<>>, <<"Dy">>}}
    \cup OtherHeaders

\* the task bodies extractTasksWithTime is called with: some text, a time, a
\* separator with or without blanks around it, a second time or none, a closing
\* bracket or none; and a body with no digit
TeamSync == <<"T", "e", "a", "m", " ", "s", "y", "n", "c">>

PayRent == <<"P", "a", "y", " ", "r", "e", "n", "t">>

Clocks == {<<"9">>, <<"9", ":", "0", "0">>, <<"1", "0", ":", "3", "0">>, <<"1", "4", ":", "0", "0">>, <<"1", "5">>}

TaskBodies ==
    {pre \o a \o g \o <<x>> \o g \o b \o post :
        pre \in {<<>>, TeamSync \o <<" ">>, <<"(">>}, a \in Clocks, g \in {<<>>, <<" ">>}, x \in {"~", "-", "/"},
        b \in Clocks \cup {<<>>}, post \in {<<>>, <<")">>}}
    \cup {PayRent}

\* the vaults getMonthlyTodoFile is called on, and the configured months
MonthFileNames ==
    {<<"1", "Mo", ".", "m", "d">>, <<"0", "1", "Mo", ".", "m", "d">>, <<"1", ".", "m", "d">>, <<"0", "1", ".", "m", "d">>, <<"1", "2", "Mo", ".", "m", "d">>}

FileLists == {<<>>} \cup {<<f>> : f \in MonthFileNames} \cup {<<f, g>> : f, g \in MonthFileNames}

Vaults ==
    [rootFolders : {{}, {TodoName}}, yearFolders : {{}, {Year2025}}, files : FileLists]

ConfiguredMonths == {<<"1">>, <<"0", "1">>, <<"1", "2">>}

\* the notes parseTasksFromFile is called with: lines before the first header
\* or none, then one to MaxSections sections, each a header and a body
MaxSections == 3

Preambles == {<<>>, <<OpenLine(<<"c">>)>>}

SectionHeads ==
    {<<"1", "/", "2", "7">>, <<"0", "1", "-", "2", "7">>, <<"1", "/", "2", "8">>, <<"m", "e", "m", "o">>}

SubStep == <<" ", " ", " ", " ">> \o OpenLine(<<"s", "u", "b">>)

SectionBodies ==
    {<<>>,
     <<OpenLine(<<"a">>)>>,
     <<DoneLine(<<"b">>)>>,
     <<<<"p", "r", "o", "s", "e">>, <<>>>>,
     <<SubStep>>,
     <<OpenMark, DoneMark \o <<" ", " ">>>>}

Sections == {<<H(h)>> \o b : h \in SectionHeads, b \in SectionBodies}

\* the lines of a run of sections
RECURSIVE Flatten(_)
Flatten(secs) == IF secs = <<>> THEN <<>> ELSE Head(secs) \o Flatten(Tail(secs))

\* task lines with a marker and nothing or only blanks after it
EmptyTaskLines == {OpenMark, DoneMark, OpenMark \o <<" ", " ">>, DoneMark \o <<" ">>}

\* the calls of exported function fn, one for each of args, that are made on
\* their own
CallInputs(fn, args) == {[fn |-> fn, arg |-> a, returned |-> FALSE, ret |-> <<>>] : a \in args}

\* the end of a Google client id, as one character
GoogleSuffix == ".apps.googleusercontent.com"

\* the client ids the user may type into the settings tab
ClientIds == <<<<"1", "-", "a", GoogleSuffix>>, <<"2", "-", "b", GoogleSuffix>>, <<"a">>, <<>>>>

Secret == <<"s">>

\* the client secrets the user may type into the settings tab
ClientSecrets == {Secret, <<>>}

\* ------------------------------------------------------------------ the state

VARIABLES
    content,      \* the lines of the month note in the vault
    targetYear,   \* settings.targetYear
    nowYear,      \* new Date().getFullYear().toString()
    calendarId,   \* userAuth.calendarId (<<>>: null)
    clientId,     \* settings.clientId
    clientSecret, \* settings.clientSecret
    calendar,     \* the events of the Google calendar
    nextId,       \* the id the calendar gives the next inserted event
    pc,           \* per trigger: the await its syncTasks call is suspended at
    loc,          \* per trigger: the local variables of that call
    stat,         \* per trigger: what the call has done so far (bookkeeping)
    done,         \* the calls that have returned, in the order they returned (bookkeeping)
    started,      \* calls started so far
    edits,        \* edits of the note so far
    failures,     \* failed remote calls so far
    call          \* a call of an exported function made on its own: [fn, arg, returned, ret]

vars == <<content, targetYear, nowYear, clientId, clientSecret, calendarId, calendar, nextId, pc, loc, stat, done,
          started, edits, failures, call>>

\* what no syncTasks call and no edit of the note writes
env == <<nowYear, clientId, clientSecret, call>>

\* no exported function is being called on its own
NoCall == [fn |-> "none", arg |-> <<>>, returned |-> FALSE, ret |-> <<>>]

NoLoc == [year |-> <<>>, tasksByDate |-> <<>>, existingEvents |-> {}, idx |-> 0,
          updatedEvents |-> {}, toDelete |-> {}]

\* seq: the number of the call; lists: calls of events.list; adds: calls of
\* addEventToCalendar; creates: calls
\* of events.insert; createdFor: the flat entries they were made for; deletes: calls of events.delete;
\* failedOps: rejected inserts and deletes; overlap: another call was in flight
\* during this one; content: the note as the call read it; calBefore: the
\* calendar when the call began
NoStat == [seq |-> 0, result |-> "none", lists |-> 0, adds |-> 0, creates |-> 0, createdFor |-> {}, deletes |-> 0,
           failedOps |-> 0, listFailed |-> FALSE, overlap |-> FALSE, content |-> <<>>, calBefore |-> {}]

\* what is kept of a call that has returned
Returned(l, st, cal) ==
    [st |-> st, year |-> l.year, tasksByDate |-> l.tasksByDate, existingEvents |-> l.existingEvents,
     updatedEvents |-> l.updatedEvents, calAfter |-> cal]

\* the state when the plugin has loaded: the note is one of `documents`, the
\* clock is in one of `years`, the calendar holds one of `calendars`
InitAs(documents, years, calendars) ==
    /\ content \in documents
    /\ targetYear \in {Year2025, Year2026}
    /\ nowYear \in years
    /\ clientId = ClientIds[1]
    /\ clientSecret = Secret
    /\ calendarId \in {<<>>, <<"p">>}
    /\ calendar \in calendars
    /\ nextId = Cardinality(calendar) + 1
    /\ pc = [p \in Triggers |-> "idle"]
    /\ loc = [p \in Triggers |-> NoLoc]
    /\ stat = [p \in Triggers |-> NoStat]
    /\ done = <<>>
    /\ started = 0
    /\ edits = 0
    /\ failures = 0
    /\ call = NoCall

InitWith(calendars) == InitAs({Documents[d] : d \in DOMAIN Documents}, {Year2026}, calendars)

Init == InitWith(InitCalendars(MaxInitOverlap))

InitSeq == InitWith(InitCalendars(MaxInitEvents))

\* the notes are the written examples, the calendar is empty, the clock is in
\* the year of the examples or in the next
InitExamples == InitAs({DentistDocument, ReadmeDocument}, {Year2025, Year2026}, {{}})

\* an exported function is about to be called on its own; no pass runs
InitCalls ==
    /\ \/ call \in CallInputs("parseDate", HeaderTexts)
       \/ call \in CallInputs("extractTasksWithTime", {<<OpenLine(b)>> : b \in TaskBodies})
       \/ call \in CallInputs("extractTasksWithTime", {<<l>> : l \in EmptyTaskLines})
       \/ call \in CallInputs("getMonthlyTodoFile",
                              [vault : Vaults, year : {Year2025}, month : ConfiguredMonths])
       \/ \E pre \in Preambles, n \in 1..MaxSections :
            \E secs \in [1..n -> Sections] : call \in CallInputs("parseTasksFromFile", {pre \o Flatten(secs)})
    /\ content = DentistDocument
    /\ targetYear = Year2025
    /\ nowYear = Year2026
    /\ clientId = ClientIds[1]
    /\ clientSecret = Secret
    /\ calendarId = <<>>
    /\ calendar = {}
    /\ nextId = Cardinality(calendar) + 1
    /\ pc = [p \in Triggers |-> "idle"]
    /\ loc = [p \in Triggers |-> NoLoc]
    /\ stat = [p \in Triggers |-> NoStat]
    /\ done = <<>>
    /\ started = 0
    /\ edits = 0
    /\ failures = 0

\* the calendar holds one event that the listing returns without an id
InitNoId == InitWith({{Stored(InitShapes[k], NoId, 0)} : k \in DOMAIN InitShapes})

InFlight(p) == pc[p] \notin {"idle", "done"}

\* the test of createAuthClient passes: both credentials are non-empty
HasCredentials == clientId # <<>> /\ clientSecret # <<>>

\* the length of the [a-zA-Z0-9_-]+ that starts at s[i], taken greedily
RECURSIVE IdRun(_, _)
IdRun(s, i) ==
    IF i <= Len(s) /\ (IsDigit(s[i]) \/ s[i] \in {"a", "b", "_", "-"}) THEN 1 + IdRun(s, i + 1) ELSE 0

\* the length of the \d+ that starts at s[i], taken greedily
RECURSIVE DigitRun(_, _)
DigitRun(s, i) == IF i <= Len(s) /\ IsDigit(s[i]) THEN 1 + DigitRun(s, i + 1) ELSE 0

\* value.match(/^\d+-[a-zA-Z0-9_-]+\.apps\.googleusercontent\.com$/)
IsValidClientId(value) ==
    LET d == DigitRun(value, 1)
        r == IdRun(value, d + 2)
    IN  /\ d > 0
        /\ d + 1 <= Len(value) /\ value[d + 1] = "-"
        /\ r > 0
        /\ d + 1 + r + 1 = Len(value)
        /\ value[Len(value)] = GoogleSuffix

\* process p moves on to control state r.pc with locals r.loc and bookkeeping
\* r.stat; cal is the calendar it leaves
Commit(p, r, cal) ==
    /\ pc' = [pc EXCEPT ![p] = r.pc]
    /\ loc' = [loc EXCEPT ![p] = r.loc]
    /\ stat' = [stat EXCEPT ![p] = r.stat]
    /\ done' = IF r.pc = "done" THEN Append(done, Returned(r.loc, r.stat, cal)) ELSE done

\* the catch block of syncTasks: the error is logged and the call returns
Caught(l, st) == [pc |-> "done", loc |-> l, stat |-> [st EXCEPT !.result = "aborted"]]

\* the loop of step 3 runs on from flat entry `from` to its next await
PhaseA(l, st, from) ==
    LET flat == FlatTasks(l.tasksByDate)
        k == NextAdd(l.year, l.existingEvents, flat, from)
    IN  IF k = 0
        THEN [pc |-> "fetch1", loc |-> [l EXCEPT !.idx = Len(flat) + 1], stat |-> st]
        ELSE [pc |-> "addFetch", loc |-> [l EXCEPT !.idx = k], stat |-> [st EXCEPT !.adds = @ + 1]]

\* the loop of step 5 runs on to its next await, or to the end of the call
PhaseB(l, st) ==
    IF l.toDelete = {}
    THEN [pc |-> "done", loc |-> l, stat |-> [st EXCEPT !.result = "ok"]]
    ELSE [pc |-> "delete", loc |-> l, stat |-> st]

\* the callback calls a syncTasks that does not test calendarId
Start_NoRefusal(p) ==
    /\ pc[p] \in {"idle", "done"}
    /\ started < MaxPasses
    /\ started' = started + 1
    /\ HasCredentials
    /\ LET others == {q \in Triggers \ {p} : InFlight(q)}
       IN  /\ pc' = [pc EXCEPT ![p] = "read"]
           /\ loc' = [loc EXCEPT ![p] = [NoLoc EXCEPT !.year = targetYear]]
           /\ stat' = [q \in Triggers |->
                        IF q = p
                        THEN [NoStat EXCEPT !.seq = started + 1, !.overlap = others # {}, !.calBefore = calendar,
                                            !.result = IF calendarId = <<>> THEN "refused" ELSE "none"]
                        ELSE IF q \in others THEN [stat[q] EXCEPT !.overlap = TRUE]
                        ELSE stat[q]]
           /\ done' = done
    /\ UNCHANGED <<content, targetYear, env, calendarId, calendar, nextId, edits, failures>>

\* the interval callback or the command callback runs: getAuthClient, outside
\* the callback's try, throws out of the callback when a credential is empty
\* ("escaped"); otherwise syncTasks is called and runs to its first await
\* (vault.read), or throws on a null calendarId into its own catch ("refused")
Start(p) ==
    /\ pc[p] \in {"idle", "done"}
    /\ started < MaxPasses
    /\ started' = started + 1
    /\ LET others == {q \in Triggers \ {p} : InFlight(q)}
           outcome == IF ~HasCredentials THEN "escaped" ELSE IF calendarId = <<>> THEN "refused" ELSE "none"
           st == [NoStat EXCEPT !.seq = started + 1, !.overlap = others # {}, !.calBefore = calendar,
                                !.result = outcome]
           l == [NoLoc EXCEPT !.year = targetYear]
       IN  /\ pc' = [pc EXCEPT ![p] = IF outcome = "none" THEN "read" ELSE "done"]
           /\ loc' = [loc EXCEPT ![p] = l]
           /\ stat' = [q \in Triggers |->
                        IF q = p THEN st
                        ELSE IF q \in others /\ outcome # "escaped" THEN [stat[q] EXCEPT !.overlap = TRUE]
                        ELSE stat[q]]
           /\ done' = IF outcome = "refused" THEN Append(done, Returned(l, st, calendar)) ELSE done
    /\ UNCHANGED <<content, targetYear, env, calendarId, calendar, nextId, edits, failures>>

\* vault.read returns; parseTasksFromFile; fetchEventsFromCalendar is called (step 2)
ReadFile(p) ==
    /\ pc[p] = "read"
    /\ Commit(p, [pc |-> "fetch0",
                  loc |-> [loc[p] EXCEPT !.tasksByDate = parseTasksFromFile(content, nowYear)],
                  stat |-> [stat[p] EXCEPT !.content = content]], calendar)
    /\ UNCHANGED <<content, targetYear, env, calendarId, calendar, nextId, started, edits, failures>>

\* events.list rejects and the call goes on as if it had listed no event
ListFail_Continues(p) ==
    /\ pc[p] \in {"fetch0", "addFetch", "fetch1"}
    /\ failures < MaxFailures
    /\ failures' = failures + 1
    /\ Commit(p, IF pc[p] = "fetch1"
                 THEN PhaseB(loc[p], [stat[p] EXCEPT !.lists = @ + 1, !.listFailed = TRUE])
                 ELSE PhaseA(loc[p], [stat[p] EXCEPT !.lists = @ + 1, !.listFailed = TRUE], loc[p].idx + 1),
              calendar)
    /\ UNCHANGED <<content, targetYear, env, calendarId, calendar, nextId, started, edits>>

\* events.list rejects and nothing settles the call of syncTasks
ListFail_Hangs(p) ==
    /\ pc[p] \in {"fetch0", "addFetch", "fetch1"}
    /\ failures < MaxFailures
    /\ failures' = failures + 1
    /\ Commit(p, [pc |-> "hung", loc |-> loc[p],
                  stat |-> [stat[p] EXCEPT !.lists = @ + 1, !.listFailed = TRUE]], calendar)
    /\ UNCHANGED <<content, targetYear, env, calendarId, calendar, nextId, started, edits>>

\* events.list rejects: fetchEventsFromCalendar throws, nothing catches it before
\* the catch block of syncTasks
ListFail(p) ==
    /\ pc[p] \in {"fetch0", "addFetch", "fetch1"}
    /\ failures < MaxFailures
    /\ failures' = failures + 1
    /\ Commit(p, Caught(loc[p], [stat[p] EXCEPT !.lists = @ + 1, !.listFailed = TRUE]), calendar)
    /\ UNCHANGED <<content, targetYear, env, calendarId, calendar, nextId, started, edits>>

\* the fetch of step 2 returns; step 3 begins
Fetch0(p) ==
    /\ pc[p] = "fetch0"
    /\ Commit(p, PhaseA([loc[p] EXCEPT !.existingEvents = fetchEventsFromCalendar(calendar)],
                        [stat[p] EXCEPT !.lists = @ + 1], 1), calendar)
    /\ UNCHANGED <<content, targetYear, env, calendarId, calendar, nextId, started, edits, failures>>

\* the fetch inside addEventToCalendar returns: a duplicate returns at once,
\* otherwise events.insert is called
AddFetch(p) ==
    /\ pc[p] = "addFetch"
    /\ LET entry == FlatTasks(loc[p].tasksByDate)[loc[p].idx]
           timeInfo == TimeInfo(loc[p].year, entry)
       IN  IF IsDuplicateAdd(fetchEventsFromCalendar(calendar), entry.t.task, timeInfo)
           THEN Commit(p, PhaseA(loc[p], [stat[p] EXCEPT !.lists = @ + 1], loc[p].idx + 1), calendar)
           ELSE Commit(p, [pc |-> "insert", loc |-> loc[p],
                           stat |-> [stat[p] EXCEPT !.lists = @ + 1,
                                                    !.creates = @ + 1,
                                                    !.createdFor = @ \cup {loc[p].idx}]],
                       calendar)
    /\ UNCHANGED <<content, targetYear, env, calendarId, calendar, nextId, started, edits, failures>>

\* events.insert resolves: the calendar holds the new event
InsertOk(p) ==
    /\ pc[p] = "insert"
    /\ LET entry == FlatTasks(loc[p].tasksByDate)[loc[p].idx]
           body == RequestBody(entry.t.task, TimeInfo(loc[p].year, entry))
       IN  calendar' = calendar \cup {Stored(body, nextId, stat[p].seq)}
    /\ nextId' = nextId + 1
    /\ Commit(p, PhaseA(loc[p], stat[p], loc[p].idx + 1), calendar')
    /\ UNCHANGED <<content, targetYear, env, calendarId, started, edits, failures>>

\* events.insert rejects and nothing catches it before the catch block of syncTasks
InsertFail_Aborts(p) ==
    /\ pc[p] = "insert"
    /\ failures < MaxFailures
    /\ failures' = failures + 1
    /\ Commit(p, Caught(loc[p], [stat[p] EXCEPT !.failedOps = @ + 1]), calendar)
    /\ UNCHANGED <<content, targetYear, env, calendarId, calendar, nextId, started, edits>>

\* events.insert rejects: caught and logged inside addEventToCalendar
InsertFail(p) ==
    /\ pc[p] = "insert"
    /\ failures < MaxFailures
    /\ failures' = failures + 1
    /\ Commit(p, PhaseA(loc[p], [stat[p] EXCEPT !.failedOps = @ + 1], loc[p].idx + 1), calendar)
    /\ UNCHANGED <<content, targetYear, env, calendarId, calendar, nextId, started, edits>>

\* step 5 works on the events fetched in step 2, with no fetch of its own
Fetch1_Stale(p) ==
    /\ pc[p] = "fetch1"
    /\ LET updatedEvents == loc[p].existingEvents
       IN  Commit(p, PhaseB([loc[p] EXCEPT !.updatedEvents = updatedEvents,
                                            !.toDelete = {e \in updatedEvents : DeletesEvent(loc[p].tasksByDate, e)}],
                            [stat[p] EXCEPT !.lists = @ + 1]), calendar)
    /\ UNCHANGED <<content, targetYear, env, calendarId, calendar, nextId, started, edits, failures>>

\* the fetch of step 4 returns; step 5 begins
Fetch1(p) ==
    /\ pc[p] = "fetch1"
    /\ LET updatedEvents == fetchEventsFromCalendar(calendar)
       IN  Commit(p, PhaseB([loc[p] EXCEPT !.updatedEvents = updatedEvents,
                                            !.toDelete = {e \in updatedEvents : DeletesEvent(loc[p].tasksByDate, e)}],
                            [stat[p] EXCEPT !.lists = @ + 1]), calendar)
    /\ UNCHANGED <<content, targetYear, env, calendarId, calendar, nextId, started, edits, failures>>

\* a loop of step 5 that ends after the first event it deletes
DeleteOk_StopsAfterFirst(p) ==
    /\ pc[p] = "delete"
    /\ \E e \in loc[p].toDelete :
        /\ e.id # NoId
        /\ calendar' = {x \in calendar : x.id # e.id}
        /\ Commit(p, PhaseB([loc[p] EXCEPT !.toDelete = {}], [stat[p] EXCEPT !.deletes = @ + 1]), calendar')
    /\ UNCHANGED <<content, targetYear, env, calendarId, nextId, started, edits, failures>>

\* events.delete resolves for the next event of the loop that is to be deleted
\* (the list order is the server's: any of the remaining ones may come next)
DeleteOk(p) ==
    /\ pc[p] = "delete"
    /\ \E e \in loc[p].toDelete :
        /\ e.id # NoId
        /\ calendar' = {x \in calendar : x.id # e.id}
        /\ Commit(p, PhaseB([loc[p] EXCEPT !.toDelete = @ \ {e}], [stat[p] EXCEPT !.deletes = @ + 1]), calendar')
    /\ UNCHANGED <<content, targetYear, env, calendarId, nextId, started, edits, failures>>

\* events.delete rejects: caught and logged inside deleteEventFromCalendar.  A
\* call made with the undefined id of an event that has none always rejects
DeleteFail(p) ==
    /\ pc[p] = "delete"
    /\ \E e \in loc[p].toDelete :
        /\ e.id = NoId \/ failures < MaxFailures
        /\ failures' = IF e.id = NoId THEN failures ELSE failures + 1
        /\ Commit(p, PhaseB([loc[p] EXCEPT !.toDelete = @ \ {e}],
                            [stat[p] EXCEPT !.deletes = @ + 1, !.failedOps = @ + 1]), calendar)
    /\ UNCHANGED <<content, targetYear, env, calendarId, calendar, nextId, started, edits>>

\* the onChange handler of the Client ID field of the settings tab
ChangeClientId(value) ==
    /\ IsValidClientId(value)
    /\ clientId' = value
    /\ UNCHANGED <<content, targetYear, nowYear, clientSecret, calendarId, calendar, nextId, pc, loc, stat,
                   done, started, edits, failures, call>>

\* the onChange handler of the Client Secret field of the settings tab
ChangeClientSecret(value) ==
    /\ clientSecret' = value
    /\ UNCHANGED <<content, targetYear, nowYear, clientId, calendarId, calendar, nextId, pc, loc, stat,
                   done, started, edits, failures, call>>

\* the user ticks or unticks a task line of the note.  The program reads the
\* note only in ReadFile, so an edit is taken when a call is about to read it:
\* an edit at any other moment shows in the same reads
ToggleTask(i) ==
    /\ edits < MaxEdits
    /\ \E p \in Triggers : pc[p] = "read"
    /\ i \in DOMAIN content
    /\ IsTaskLine(content[i])
    /\ edits' = edits + 1
    /\ content' = [content EXCEPT ![i] =
                    (IF StartsWith(@, OpenMark) THEN DoneMark ELSE OpenMark) \o SubSeq(@, 6, Len(@))]
    /\ UNCHANGED <<targetYear, env, calendarId, calendar, nextId, pc, loc, stat, done, started, failures>>

Next ==
    \/ \E p \in Triggers : Start(p)
    \/ \E p \in Triggers : ReadFile(p)
    \/ \E p \in Triggers : ListFail(p)
    \/ \E p \in Triggers : Fetch0(p)
    \/ \E p \in Triggers : AddFetch(p)
    \/ \E p \in Triggers : InsertOk(p)
    \/ \E p \in Triggers : InsertFail(p)
    \/ \E p \in Triggers : Fetch1(p)
    \/ \E p \in Triggers : DeleteOk(p)
    \/ \E p \in Triggers : DeleteFail(p)
    \/ \E i \in DOMAIN content : ToggleTask(i)

Spec == Init /\ [][Next]_vars

\* the passes of a process in which no trigger fires while a pass is in flight
StartSeq(p) == (\A q \in Triggers : ~InFlight(q)) /\ Start(p)

NextSeq ==
    \/ \E p \in Triggers : StartSeq(p)
    \/ \E p \in Triggers : ReadFile(p)
    \/ \E p \in Triggers : ListFail(p)
    \/ \E p \in Triggers : Fetch0(p)
    \/ \E p \in Triggers : AddFetch(p)
    \/ \E p \in Triggers : InsertOk(p)
    \/ \E p \in Triggers : InsertFail(p)
    \/ \E p \in Triggers : Fetch1(p)
    \/ \E p \in Triggers : DeleteOk(p)
    \/ \E p \in Triggers : DeleteFail(p)
    \/ \E i \in DOMAIN content : ToggleTask(i)

SpecSeq == InitSeq /\ [][NextSeq]_vars

\* the call of process p goes on from the await it is suspended at: vault.read
\* returns, or a request to the calendar resolves or rejects
PassStep(p) ==
    \/ ReadFile(p)
    \/ ListFail(p)
    \/ Fetch0(p)
    \/ AddFetch(p)
    \/ InsertOk(p)
    \/ InsertFail(p)
    \/ Fetch1(p)
    \/ DeleteOk(p)
    \/ DeleteFail(p)

\* the positions at which call p waits for vault.read or for a remote call
Awaiting(p) == pc[p] \in {"read", "fetch0", "addFetch", "insert", "fetch1", "delete"}

\* Every awaited call returns or fails: call p does not wait forever without
\* taking a step.  This is weak fairness of PassStep(p), with the positions
\* at which the code awaits written out in the place of
\* ENABLED <<PassStep(p)>>_vars.
Settles(p) == []<>(~Awaiting(p)) \/ []<><<PassStep(p)>>_vars

\* the passes one after another, every awaited call settling in the end
SpecLive == Init /\ [][NextSeq]_vars /\ \A p \in Triggers : Settles(p)

\* what a call of an exported function made on its own leaves alone
passVars == <<content, targetYear, nowYear, clientId, clientSecret, calendarId, calendar, nextId, pc, loc, stat,
              done, started, edits, failures>>

CallParseDate ==
    /\ call.fn = "parseDate"
    /\ ~call.returned
    /\ call' = [call EXCEPT !.returned = TRUE, !.ret = parseDate(call.arg)]
    /\ UNCHANGED passVars

CallExtractTasksWithTime ==
    /\ call.fn = "extractTasksWithTime"
    /\ ~call.returned
    /\ call' = [call EXCEPT !.returned = TRUE, !.ret = extractTasksWithTime(call.arg)]
    /\ UNCHANGED passVars

CallGetMonthlyTodoFile ==
    /\ call.fn = "getMonthlyTodoFile"
    /\ ~call.returned
    /\ call' = [call EXCEPT !.returned = TRUE,
                            !.ret = getMonthlyTodoFile(call.arg.vault, call.arg.year, call.arg.month)]
    /\ UNCHANGED passVars

CallParseTasksFromFile ==
    /\ call.fn = "parseTasksFromFile"
    /\ ~call.returned
    /\ call' = [call EXCEPT !.returned = TRUE, !.ret = parseTasksFromFile(call.arg, nowYear)]
    /\ UNCHANGED passVars

NextCalls ==
    \/ CallParseDate
    \/ CallExtractTasksWithTime
    \/ CallGetMonthlyTodoFile
    \/ CallParseTasksFromFile

SpecCalls == InitCalls /\ [][NextCalls]_vars

\* the same passes on the written examples
SpecExamples == InitExamples /\ [][NextSeq]_vars

\* the same passes on a calendar with an event that has no id
SpecNoId == InitNoId /\ [][NextSeq]_vars

\* the same passes, the user also editing the credentials in the settings tab
NextSettings ==
    \/ \E p \in Triggers : StartSeq(p)
    \/ \E p \in Triggers : ReadFile(p)
    \/ \E p \in Triggers : ListFail(p)
    \/ \E p \in Triggers : Fetch0(p)
    \/ \E p \in Triggers : AddFetch(p)
    \/ \E p \in Triggers : InsertOk(p)
    \/ \E p \in Triggers : InsertFail(p)
    \/ \E p \in Triggers : Fetch1(p)
    \/ \E p \in Triggers : DeleteOk(p)
    \/ \E p \in Triggers : DeleteFail(p)
    \/ \E i \in DOMAIN content : ToggleTask(i)
    \/ \E k \in DOMAIN ClientIds : ChangeClientId(ClientIds[k])
    \/ \E value \in ClientSecrets : ChangeClientSecret(value)

SpecSettings == Init /\ [][NextSettings]_vars

\* ------------------------------------------------------------------ the claims

\* the entry of the flat task list that call p is adding
CurrentEntry(p) == FlatTasks(loc[p].tasksByDate)[loc[p].idx]

\* event e stands for a task of that description on that date (the duplicate rule)
Matches(e, task, date) == Trim(e.summary) = Trim(task) /\ EventDate(e) = date

\* C1: at every moment at most one reconciliation pass (syncTasks) is in
\* flight: no second pass runs its steps until the first has returned.
C1_AtMostOnePassInFlight == Cardinality({p \in Triggers : InFlight(p)}) <= 1

\* C2: whatever the interleaving of a timer pass and a manual pass, the calendar
\* never holds two program-created events with the same trimmed summary and the
\* same date.
C2_NoDuplicateCreated ==
    \A e1, e2 \in calendar :
        (e1.by > 0 /\ e2.by > 0 /\ e1.id # e2.id)
            => ~(Trim(e1.summary) = Trim(e2.summary) /\ EventDate(e1) = EventDate(e2))

\* C3: when passes do not overlap, a create call (events.insert) is in flight for
\* an open task only if the calendar holds no event whose trimmed summary is the
\* task's trimmed description and whose start date, all-day or timed, is the
\* task's date in the configured year.
C3_NoCreateForExistingEvent ==
    \A p \in Triggers :
        pc[p] = "insert" =>
            ~\E e \in calendar :
                Matches(e, CurrentEntry(p).t.task, TargetDateStr(loc[p].year, CurrentEntry(p).date))

\* C3 happens: Phase A has ended without a create call although an open task was
\* there, the calendar holding a timed event that matches it
C3_Witness ==
    \E p \in Triggers :
        /\ pc[p] = "fetch1"
        /\ stat[p].creates = 0
        /\ \E k \in DOMAIN FlatTasks(loc[p].tasksByDate) :
            LET entry == FlatTasks(loc[p].tasksByDate)[k]
            IN  /\ ~entry.t.completed
                /\ \E e \in calendar :
                    /\ e.start.dateTime # <<>>
                    /\ Matches(e, entry.t.task, TargetDateStr(loc[p].year, entry.date))

\* a returned call that ran to its end with no rejected request and alone
Clean(d) == d.st.result = "ok" /\ d.st.failedOps = 0 /\ ~d.st.overlap

\* calls i and i + 1 returned one after the other, nothing touching the calendar between
BackToBack(i) ==
    /\ i \in DOMAIN done
    /\ i + 1 \in DOMAIN done
    /\ ~done[i].st.overlap
    /\ ~done[i + 1].st.overlap
    /\ done[i + 1].st.calBefore = done[i].calAfter

\* the open entries of a TaskIndex
OpenEntries(tasksByDate) ==
    {FlatTasks(tasksByDate)[k] : k \in {j \in DOMAIN FlatTasks(tasksByDate) : ~FlatTasks(tasksByDate)[j].t.completed}}

\* C4: idempotence: of two failure-free passes run back to back on the same text,
\* the second issues no create call and no delete call.
C4_SecondPassIdle ==
    \A i \in DOMAIN done :
        (/\ BackToBack(i)
         /\ Clean(done[i])
         /\ Clean(done[i + 1])
         /\ done[i].st.content = done[i + 1].st.content)
            => (done[i + 1].st.creates = 0 /\ done[i + 1].st.deletes = 0)

\* C5: convergence: after a failure-free pass every open task of the TaskIndex
\* has exactly one event of its description and date, and every event on the
\* calendar is the event of an open task.
C5_OneToOne ==
    \A i \in DOMAIN done :
        Clean(done[i]) =>
            /\ \A entry \in OpenEntries(done[i].tasksByDate) :
                Cardinality({e \in done[i].calAfter : Matches(e, entry.t.task, entry.date)}) = 1
            /\ \A e \in done[i].calAfter :
                \E entry \in OpenEntries(done[i].tasksByDate) : Matches(e, entry.t.task, entry.date)

\* flat entry k was open when call i read the note and is completed, under the
\* same date and with the same description, when call i + 1 reads it
CompletedBetween(i, k) ==
    LET before == FlatTasks(done[i].tasksByDate)
        after == FlatTasks(done[i + 1].tasksByDate)
    IN  /\ k \in DOMAIN before
        /\ k \in DOMAIN after
        /\ before[k].date = after[k].date
        /\ before[k].t.task = after[k].t.task
        /\ ~before[k].t.completed
        /\ after[k].t.completed

\* the events the calendar held for that task when call i returned
EventsOf(i, k) ==
    {e \in done[i].calAfter :
        /\ e.summary = FlatTasks(done[i].tasksByDate)[k].t.task
        /\ EventDate(e) = FlatTasks(done[i].tasksByDate)[k].date}

\* call i + 1 has deleted those events and has issued no create call for the task
RemovedNotRecreated(i, k) ==
    /\ \A e \in EventsOf(i, k) : \A x \in done[i + 1].calAfter : x.id # e.id
    /\ k \notin done[i + 1].st.createdFor

\* when call i + 1 reads the note, the first line of that description under that
\* date is a completed one
FirstTwinCompleted(i, k) ==
    LET after == FlatTasks(done[i + 1].tasksByDate)
        Twin(m) == after[m].date = after[k].date /\ after[m].t.task = after[k].t.task
    IN  \A m \in DOMAIN after :
            (Twin(m) /\ \A n \in DOMAIN after : n < m => ~Twin(n)) => after[m].t.completed

CompletionCase(i, k) ==
    /\ BackToBack(i)
    /\ Clean(done[i])
    /\ Clean(done[i + 1])
    /\ CompletedBetween(i, k)
    /\ EventsOf(i, k) # {}

\* C6 as stated: a task open in one pass, its event on the calendar, and marked
\* completed before the next pass: the next pass deletes the event and issues no
\* create call for it.
C6_CompletionRemoves ==
    \A i \in DOMAIN done :
        i + 1 \in DOMAIN done =>
            \A k \in DOMAIN FlatTasks(done[i].tasksByDate) :
                CompletionCase(i, k) => RemovedNotRecreated(i, k)

\* C6 as amended: the same, when the first line of that description under that
\* date is a completed one at the next pass (an open line of the same description
\* listed before every completed one keeps the event).
C6_CompletionRemovesUnlessOpenFirst ==
    \A i \in DOMAIN done :
        i + 1 \in DOMAIN done =>
            \A k \in DOMAIN FlatTasks(done[i].tasksByDate) :
                (CompletionCase(i, k) /\ FirstTwinCompleted(i, k)) => RemovedNotRecreated(i, k)

\* C6 happens: a pass has returned after a task with an event was completed
C6_Witness ==
    \E i \in DOMAIN done :
        /\ i + 1 \in DOMAIN done
        /\ \E k \in DOMAIN FlatTasks(done[i].tasksByDate) :
            /\ CompletionCase(i, k)
            /\ FirstTwinCompleted(i, k)
            /\ done[i + 1].st.deletes > 0

\* C7: after a failure-free pass every event on the calendar starts on a date
\* that is a key of the TaskIndex and has the description of an open task under
\* that key as its summary.
C7_CalendarIsProjection ==
    \A i \in DOMAIN done :
        Clean(done[i]) =>
            \A e \in done[i].calAfter :
                /\ ObjHas(done[i].tasksByDate, EventDate(e))
                /\ \E k \in DOMAIN ObjGet(done[i].tasksByDate, EventDate(e)) :
                    /\ ObjGet(done[i].tasksByDate, EventDate(e))[k].task = e.summary
                    /\ ~ObjGet(done[i].tasksByDate, EventDate(e))[k].completed

\* C7 happens: a failure-free pass has deleted events and has left some
C7_Witness ==
    \E i \in DOMAIN done :
        /\ Clean(done[i])
        /\ done[i].st.deletes > 0
        /\ done[i].calAfter # {}

\* C8: a rejected events.insert or events.delete does not abort the pass: the
\* call runs to its end, addEventToCalendar is called for every open task the
\* loop of step 3 selects and events.delete for every event step 5 selects.
C8_WriteFailureDoesNotAbort ==
    \A i \in DOMAIN done :
        (done[i].st.failedOps > 0 /\ ~done[i].st.listFailed) =>
            /\ done[i].st.result = "ok"
            /\ done[i].st.adds =
                Cardinality({k \in DOMAIN FlatTasks(done[i].tasksByDate) :
                                CallsAdd(done[i].year, done[i].existingEvents, FlatTasks(done[i].tasksByDate)[k])})
            /\ done[i].st.deletes =
                Cardinality({e \in done[i].updatedEvents : DeletesEvent(done[i].tasksByDate, e)})

\* C8 happens: the one events.insert of a call was rejected (no event of the call
\* was listed afterwards) and the call went on to delete an event
C8_Witness ==
    \E i \in DOMAIN done :
        /\ done[i].st.failedOps > 0
        /\ done[i].st.creates = 1
        /\ \A e \in done[i].updatedEvents : e.by # done[i].st.seq
        /\ done[i].st.deletes > done[i].st.failedOps - 1
        /\ done[i].st.deletes > 0
        /\ done[i].st.result = "ok"

\* C9 as stated: a rejected events.list is recovered and the pass continues to
\* its end.
C9_ListFailureContinues ==
    \A i \in DOMAIN done : done[i].st.listFailed => done[i].st.result = "ok"

\* C9 as amended: a rejected events.list, at the start, inside the duplicate
\* check or at the re-fetch, aborts the pass: the call returns from its catch
\* block at once, with no further request and no events.delete issued at all.
C9_ListFailureAborts ==
    /\ \A p \in Triggers : stat[p].listFailed => (pc[p] = "done" /\ stat[p].result = "aborted")
    /\ \A i \in DOMAIN done :
        done[i].st.listFailed => (done[i].st.result = "aborted" /\ done[i].st.deletes = 0)

\* C9 happens: events.list was rejected after the call had begun step 3
C9_Witness ==
    \E i \in DOMAIN done : done[i].st.listFailed /\ done[i].st.adds > 0

\* an event without the fields the server adds
Shape(e) == [summary |-> e.summary, start |-> e.start, end |-> e.end]

\* step 3 of a pass in which no request is rejected, from flat entry k on
RECURSIVE CleanAdds(_, _, _, _, _)
CleanAdds(year, existingEvents, flat, k, shapes) ==
    IF k > Len(flat) THEN shapes
    ELSE IF /\ CallsAdd(year, existingEvents, flat[k])
            /\ ~IsDuplicateAdd(shapes, flat[k].t.task, TimeInfo(year, flat[k]))
         THEN CleanAdds(year, existingEvents, flat, k + 1,
                        shapes \cup {RequestBody(flat[k].t.task, TimeInfo(year, flat[k]))})
         ELSE CleanAdds(year, existingEvents, flat, k + 1, shapes)

\* the calendar a pass in which no request is rejected leaves
CleanPass(cal, tasksByDate, year) ==
    {s \in CleanAdds(year, {Shape(e) : e \in cal}, FlatTasks(tasksByDate), 1, {Shape(e) : e \in cal}) :
        ~DeletesEvent(tasksByDate, s)}

\* C10: self-healing: a pass with rejected requests followed by a failure-free
\* pass on the same text leaves the calendar the first pass would have left had
\* none of its requests been rejected.
C10_SelfHealing ==
    \A i \in DOMAIN done :
        (/\ BackToBack(i)
         /\ done[i].st.result # "refused"
         /\ (done[i].st.failedOps > 0 \/ done[i].st.listFailed)
         /\ Clean(done[i + 1])
         /\ done[i].st.content = done[i + 1].st.content)
            => {Shape(e) : e \in done[i + 1].calAfter}
                = CleanPass(done[i].st.calBefore, done[i].tasksByDate, done[i].year)

\* C11: with no calendar selected a triggered pass is refused entirely: the call
\* returns without any events.list, events.insert or events.delete, and the
\* calendar is as it was.
C11_RefusedWithoutCalendar ==
    /\ \A p \in Triggers :
        (calendarId = <<>> /\ pc[p] # "idle") =>
            /\ pc[p] = "done"
            /\ stat[p].result = "refused"
            /\ stat[p].lists = 0 /\ stat[p].adds = 0 /\ stat[p].creates = 0 /\ stat[p].deletes = 0
    /\ \A i \in DOMAIN done :
        done[i].st.result = "refused" => done[i].calAfter = done[i].st.calBefore
    /\ calendarId = <<>> => \A e \in calendar : e.by = 0

\* C11 happens: a pass was triggered with no calendar selected, the calendar
\* holding an event
C11_Witness ==
    /\ calendarId = <<>>
    /\ calendar # {}
    /\ \E i \in DOMAIN done : done[i].st.result = "refused"

\* C12: no error is thrown out of the timer callback or the manual-sync command
\* callback, whatever the settings (a credential cleared after load included)
\* and whatever remote call fails.
C12_NothingEscapesCallback ==
    \A p \in Triggers : stat[p].result # "escaped"

\* C13: Phase B leaves an event that the listing returned without an id
\* untouched: no events.delete is called for it (every events.delete of a pass is
\* for an event that has an id and that step 5 selects), and the pass goes on.
C13_NoDeleteForEventWithoutId ==
    \A i \in DOMAIN done :
        done[i].st.deletes <=
            Cardinality({e \in done[i].updatedEvents : e.id # NoId /\ DeletesEvent(done[i].tasksByDate, e)})

\* the open tasks of a TaskIndex that have no event of their trimmed summary and
\* date on the calendar, and the events of the calendar that match no open task
UnservedTasks(cal, tasksByDate) ==
    {k \in DOMAIN FlatTasks(tasksByDate) :
        /\ ~FlatTasks(tasksByDate)[k].t.completed
        /\ ~\E e \in cal : Matches(e, FlatTasks(tasksByDate)[k].t.task, FlatTasks(tasksByDate)[k].date)}

StrayEvents(cal, tasksByDate) ==
    {e \in cal : ~\E entry \in OpenEntries(tasksByDate) : Matches(e, entry.t.task, entry.date)}

ErrorCount(cal, tasksByDate) ==
    Cardinality(UnservedTasks(cal, tasksByDate)) + Cardinality(StrayEvents(cal, tasksByDate))

\* C14: monotonic convergence: the number of open tasks without an event plus
\* the number of events without an open task is, after any pass, with or without
\* failed calls, not greater than it was before the pass.
C14_MonotonicConvergence ==
    \A i \in DOMAIN done :
        (~done[i].st.overlap /\ done[i].st.result # "refused") =>
            ErrorCount(done[i].calAfter, done[i].tasksByDate)
                <= ErrorCount(done[i].st.calBefore, done[i].tasksByDate)

\* the first pass of a run on `document`, failure-free, from an empty calendar
FirstPassOn(i, document) ==
    /\ done[i].st.seq = 1
    /\ Clean(done[i])
    /\ done[i].st.content = document
    /\ done[i].st.calBefore = {}

\* the request bodies of the events.insert calls of returned call i
BodiesOf(i) ==
    {RequestBody(FlatTasks(done[i].tasksByDate)[k].t.task,
                 TimeInfo(done[i].year, FlatTasks(done[i].tasksByDate)[k])) : k \in done[i].st.createdFor}

\* C15: end to end: configured year 2025, the note ## 2025-1-27 with the open
\* task Dentist (14:00-15:00) and the completed task Gym, an empty calendar: one
\* pass makes exactly one create call, for a timed event from 2025-01-27T14:00:00
\* to 2025-01-27T15:00:00, and no delete call.
C15_EndToEnd ==
    \A i \in DOMAIN done :
        (FirstPassOn(i, DentistDocument) /\ done[i].year = Year2025) =>
            /\ done[i].st.creates = 1
            /\ BodiesOf(i) = {Timed(DentistTask,
                                    Year2025 \o Jan27 \o <<"T", "1", "4", ":", "0", "0", ":", "0", "0">>,
                                    Year2025 \o Jan27 \o <<"T", "1", "5", ":", "0", "0", ":", "0", "0">>)}
            /\ done[i].st.deletes = 0

\* C16: the note in the format of the README is parsed into the TaskIndex and a
\* pass creates an event for its open task.
C16_ReadmeFormatSynced ==
    \A i \in DOMAIN done :
        FirstPassOn(i, ReadmeDocument) =>
            /\ \E entry \in OpenEntries(done[i].tasksByDate) : entry.t.task = ExampleTask
            /\ \E b \in BodiesOf(i) : b.summary = ExampleTask

\* the events of a calendar for which the TaskIndex has no task line at all
EventsWithoutTaskLine(cal, tasksByDate) ==
    {e \in cal : ~HasMatchingTask(TasksOnDate(tasksByDate, EventDate(e)), e)}

\* C17: a sync fetches the events of the calendar and updates the Todo file with
\* them: an event that has no task line in the note stays on the calendar (the
\* note is what the pass changes).
C17_EventWithoutTaskLineKept ==
    \A i \in DOMAIN done :
        Clean(done[i]) =>
            \A e \in EventsWithoutTaskLine(done[i].st.calBefore, done[i].tasksByDate) :
                \E x \in done[i].calAfter : x.id = e.id

\* the five header strings of C18: 1/27, 01-27, 1Mo27Dy, 2025-1-27, 2025/1/27
NamedHeaders ==
    {<<"1", "/", "2", "7">>, <<"0", "1", "-", "2", "7">>, <<"1", "Mo", "2", "7", "Dy">>,
     Year2025 \o <<"-", "1", "-", "2", "7">>, Year2025 \o <<"/", "1", "/", "2", "7">>}

IsClock(s, i, n) ==
    \/ n \in {1, 2} /\ IsDigitsAt(s, i, n)
    \/ /\ n \in {4, 5}
       /\ IsDigitsAt(s, i, n - 3)
       /\ i + n - 3 <= Len(s) /\ s[i + n - 3] = ":"
       /\ IsDigitsAt(s, i + n - 2, 2)

\* where the separator, and where the second time, of a pattern whose first time
\* is the n1 characters at s[i] must be, blanks around the separator allowed or not
SeparatorAt(s, i, n1, blanks) == IF blanks THEN SkipSpaces(s, i + n1) ELSE i + n1

SecondAt(s, i, n1, blanks) ==
    IF blanks THEN SkipSpaces(s, SeparatorAt(s, i, n1, blanks) + 1) ELSE SeparatorAt(s, i, n1, blanks) + 1

\* s holds at s[i] a time of n1 characters, then ~ or -, then a time of n2 characters
Occurs(s, i, n1, n2, blanks) ==
    /\ IsClock(s, i, n1)
    /\ SeparatorAt(s, i, n1, blanks) <= Len(s)
    /\ s[SeparatorAt(s, i, n1, blanks)] \in {"~", "-"}
    /\ IsClock(s, SecondAt(s, i, n1, blanks), n2)

Occurrences(s, blanks) ==
    {o \in [i : DOMAIN s, n1 : {1, 2, 4, 5}, n2 : {1, 2, 4, 5}] : Occurs(s, o.i, o.n1, o.n2, blanks)}

\* the first pattern of s, its two times taken whole
FirstOccurrence(s, blanks) ==
    CHOOSE o \in Occurrences(s, blanks) :
        \A x \in Occurrences(s, blanks) :
            /\ o.i <= x.i
            /\ x.i = o.i => (x.n1 <= o.n1 /\ (x.n1 = o.n1 => x.n2 <= o.n2))

\* the timeRange the claim gives body s: null when s holds no pattern
ExpectedTime(s, blanks) ==
    IF Occurrences(s, blanks) = {} THEN NoTime
    ELSE LET o == FirstOccurrence(s, blanks)
         IN  [has |-> TRUE,
              start |-> SubSeq(s, o.i, o.i + o.n1 - 1),
              end |-> SubSeq(s, SecondAt(s, o.i, o.n1, blanks), SecondAt(s, o.i, o.n1, blanks) + o.n2 - 1)]

\* the body of the one task line extractTasksWithTime was called with
CallBody == SubSeq(call.arg[1], Len(OpenMark) + 2, Len(call.arg[1]))

\* C19 as stated: a body that holds H[:MM], then ~ or -, then H[:MM] yields the
\* timeRange of the first such pattern, start the first time and end the second;
\* a body that holds no such pattern yields no timeRange.
C19_TimeExtractionStrict ==
    (call.fn = "extractTasksWithTime" /\ call.returned) =>
        /\ Len(call.ret) = 1
        /\ call.ret[1].time = ExpectedTime(CallBody, FALSE)

\* C19 as amended: the same with blanks allowed between the first time and the
\* separator and between the separator and the second time; Team sync 9:00~10:30
\* yields start 9:00 and end 10:30, Pay rent yields no timeRange.
C19_TimeExtraction ==
    (call.fn = "extractTasksWithTime" /\ call.returned) =>
        /\ Len(call.ret) = 1
        /\ call.ret[1].time = ExpectedTime(CallBody, TRUE)
        /\ CallBody = TeamSync \o <<" ", "9", ":", "0", "0", "~", "1", "0", ":", "3", "0">> =>
            call.ret[1].time = [has |-> TRUE, start |-> <<"9", ":", "0", "0">>,
                                end |-> <<"1", "0", ":", "3", "0">>]
        /\ CallBody = PayRent => call.ret[1].time = NoTime

\* C19 happens: extractTasksWithTime has returned a timeRange for a body with
\* blanks around the separator
C19_Witness ==
    /\ call.fn = "extractTasksWithTime"
    /\ call.returned
    /\ CallBody = TeamSync \o <<" ", "9", ":", "0", "0", " ", "-", " ", "1", "0", ":", "3", "0">>
    /\ call.ret[1].time.has

\* the file names of the January note: month token 1 or 01, with or without Mo
JanuaryNames ==
    {<<"1", "Mo", ".", "m", "d">>, <<"0", "1", "Mo", ".", "m", "d">>, <<"1", ".", "m", "d">>,
     <<"0", "1", ".", "m", "d">>}

\* C20: for each combination of configured month 1 or 01 and stored file token
\* 1 or 01, with or without the month suffix Mo in the file name, the month
\* document is found.
C20_MonthFileFound ==
    (/\ call.fn = "getMonthlyTodoFile"
     /\ call.returned
     /\ TodoName \in call.arg.vault.rootFolders
     /\ call.arg.year \in call.arg.vault.yearFolders
     /\ call.arg.month \in {<<"1">>, <<"0", "1">>}
     /\ \E k \in DOMAIN call.arg.vault.files : call.arg.vault.files[k] \in JanuaryNames)
        => call.ret \in JanuaryNames

\* the call of process p has fetched the events of step 4
SnapshotFetched(p) == pc[p] = "delete" \/ (pc[p] = "done" /\ stat[p].result = "ok")

\* the events on the calendar that the call of process p has created
CreatedBy(p) == {e \in calendar : e.by = stat[p].seq}

\* C21: within one pass every create call is issued before the events of
\* step 4 are fetched and before any delete call; those events are fetched
\* when the loop of step 3 has ended, so that they hold what the pass has
\* created; every delete call is issued after that fetch.
C21_PhasesOrdered ==
    [][\A p \in Triggers :
        stat'[p].seq = stat[p].seq =>
            /\ stat'[p].creates > stat[p].creates =>
                pc[p] = "addFetch" /\ ~SnapshotFetched(p) /\ stat[p].deletes = 0
            /\ (pc[p] = "fetch1" /\ SnapshotFetched(p)') =>
                /\ loc[p].idx > Len(FlatTasks(loc[p].tasksByDate))
                /\ stat[p].deletes = 0
                /\ CreatedBy(p) \subseteq loc'[p].updatedEvents
            /\ stat'[p].deletes > stat[p].deletes =>
                SnapshotFetched(p) /\ stat'[p].creates = stat[p].creates]_vars

\* a pass has returned that created an event, fetched it in step 4 and then
\* issued a delete call
C21_Witness ==
    \E i \in DOMAIN done :
        /\ done[i].st.result = "ok"
        /\ done[i].st.creates > 0
        /\ done[i].st.deletes > 0
        /\ \E e \in done[i].updatedEvents : e.by = done[i].st.seq

\* the open tasks with a valid date that the loop of step 3 of process p
\* passes in this step without a call of addEventToCalendar
PassedWithoutFetch(p) ==
    LET flat == FlatTasks(loc[p].tasksByDate)
    IN  IF stat'[p].seq = stat[p].seq /\ pc[p] \in {"fetch0", "addFetch", "insert"}
        THEN {j \in (loc[p].idx + 1)..(loc'[p].idx - 1) :
                j \in DOMAIN flat /\ ~flat[j].t.completed /\ parseDate(flat[j].date).ok}
        ELSE {}

\* an event of `events` has the trimmed summary and the date of flat entry j
\* of the call of process p
HasEventFor(events, p, j) ==
    LET entry == FlatTasks(loc[p].tasksByDate)[j]
    IN  \E e \in events : Matches(e, entry.t.task, TargetDateStr(loc[p].year, entry.date))

\* C22 (as stated): every decision of step 3 between skip and create is made
\* on events fetched for that task, so that the loop passes no open task
\* without a fetch of its own.
C22_FreshSnapshotPerTask == [][\A p \in Triggers : PassedWithoutFetch(p) = {}]_vars

\* C22 (amended): a create call is only issued after a duplicate test on
\* events fetched for that task, which finds no event of the task on the
\* calendar as it is then, earlier creates of the pass included; a skip is
\* decided either on such a fetch, which finds an event of the task on the
\* calendar, or with no fetch on the events fetched in step 2, which hold an
\* event of the task.
C22_FreshSnapshotBeforeCreate ==
    [][\A p \in Triggers :
        stat'[p].seq = stat[p].seq =>
            /\ stat'[p].creates > stat[p].creates =>
                pc[p] = "addFetch" /\ ~HasEventFor(calendar, p, loc[p].idx)
            /\ (pc[p] = "addFetch" /\ stat'[p].lists > stat[p].lists /\ pc'[p] \in {"addFetch", "fetch1"}) =>
                HasEventFor(calendar, p, loc[p].idx)
            /\ \A j \in PassedWithoutFetch(p) : HasEventFor(loc'[p].existingEvents, p, j)]_vars

\* a pass has returned that created an event and skipped a later task on the
\* events fetched for it
C22_Witness ==
    \E i \in DOMAIN done :
        /\ done[i].st.result = "ok"
        /\ done[i].st.creates > 0
        /\ done[i].st.adds > done[i].st.creates
        /\ \E e \in done[i].updatedEvents : e.by = done[i].st.seq

\* tasksByDate holds, under the date of event e, an open task whose
\* description is the summary of e
HasOpenTaskFor(tasksByDate, e) ==
    \E k \in DOMAIN TasksOnDate(tasksByDate, EventDate(e)) :
        /\ TasksOnDate(tasksByDate, EventDate(e))[k].task = e.summary
        /\ ~TasksOnDate(tasksByDate, EventDate(e))[k].completed

\* C23: step 5 issues no delete call for an event that has, under its date,
\* an open task with its summary as description, whether or not a completed
\* task with the same description stands under the same date.
C23_OpenTaskKeepsEvent ==
    [][\A p \in Triggers :
        (stat'[p].seq = stat[p].seq /\ stat'[p].deletes > stat[p].deletes) =>
            \A e \in loc[p].toDelete \ loc'[p].toDelete : ~HasOpenTaskFor(loc[p].tasksByDate, e)]_vars

\* C24: every key of tasksByDate is the configured year, "-", a two-digit
\* month, "-", a two-digit day: the date string step 3 gives the events it
\* creates for the tasks under that key.
C24_DateKeyFromTargetYear ==
    \A p \in Triggers :
        \A k \in DOMAIN loc[p].tasksByDate :
            /\ StartsWith(loc[p].tasksByDate[k][1], loc[p].year \o Dash)
            /\ loc[p].tasksByDate[k][1] = TargetDateStr(loc[p].year, loc[p].tasksByDate[k][1])

\* the indices of the section headers of a note
HeaderLines(doc) == {i \in DOMAIN doc : StartsWith(doc[i], HeaderMark)}

\* the lines of the section whose header is line i, each trimmed: the lines
\* after line i up to the next header or the end of the note
SectionLines(doc, i) ==
    LET last == IF \E j \in HeaderLines(doc) : j > i
                THEN (CHOOSE j \in HeaderLines(doc) : j > i /\ \A x \in HeaderLines(doc) : x > i => j <= x) - 1
                ELSE Len(doc)
    IN  [k \in 1..(last - i) |-> Trim(doc[i + k])]

\* the DateKey of the section whose header is line i (<<>>: the header is no date)
SectionKey(doc, i, year) ==
    IF parseDate(HeaderText(doc[i])).ok THEN DateString(year, parseDate(HeaderText(doc[i]))) ELSE <<>>

\* the tasks of the sections of key `key` from line i on, in the order of the note
RECURSIVE MergedTasks(_, _, _, _)
MergedTasks(doc, key, year, i) ==
    IF i > Len(doc) THEN <<>>
    ELSE IF i \in HeaderLines(doc) /\ SectionKey(doc, i, year) = key
    THEN extractTasksWithTime(SectionLines(doc, i)) \o MergedTasks(doc, key, year, i + 1)
    ELSE MergedTasks(doc, key, year, i + 1)

\* C25: the TaskIndex entry of a DateKey holds the tasks of all the sections
\* whose headers normalize to that DateKey, in the order of the note.
C25_SectionsMerged ==
    (call.fn = "parseTasksFromFile" /\ call.returned) =>
        \A i \in HeaderLines(call.arg) :
            SectionKey(call.arg, i, nowYear) # <<>> =>
                /\ ObjHas(call.ret, SectionKey(call.arg, i, nowYear))
                /\ ObjGet(call.ret, SectionKey(call.arg, i, nowYear))
                    = MergedTasks(call.arg, SectionKey(call.arg, i, nowYear), nowYear, 1)

\* C26: every DateKey of the TaskIndex has at least one task.
C26_NoEmptyDateKey ==
    (call.fn = "parseTasksFromFile" /\ call.returned) =>
        \A k \in DOMAIN call.ret : call.ret[k][2] # <<>>

\* the note without its lines before the first header and without the
\* sections whose header is no date, from line i on; keep: line i is in a
\* section that stays
RECURSIVE WithoutInvalid(_, _, _)
WithoutInvalid(doc, i, keep) ==
    IF i > Len(doc) THEN <<>>
    ELSE IF i \in HeaderLines(doc)
    THEN (IF SectionKey(doc, i, nowYear) # <<>> THEN <<doc[i]>> ELSE <<>>)
         \o WithoutInvalid(doc, i + 1, SectionKey(doc, i, nowYear) # <<>>)
    ELSE (IF keep THEN <<doc[i]>> ELSE <<>>) \o WithoutInvalid(doc, i + 1, keep)

\* the descriptions of the tasks of a TaskIndex
TaskNames(tasksByDate) ==
    UNION {{tasksByDate[k][2][j].task : j \in DOMAIN tasksByDate[k][2]} : k \in DOMAIN tasksByDate}

OpenRanges(s) ==
    {o \in [i : DOMAIN s, n1 : {1, 2, 4, 5}] :
        /\ IsClock(s, o.i, o.n1)
        /\ SeparatorAt(s, o.i, o.n1, TRUE) <= Len(s)
        /\ s[SeparatorAt(s, o.i, o.n1, TRUE)] \in {"~", "-"}}

\* the first of them, its time taken whole
FirstOpenRange(s) ==
    CHOOSE o \in OpenRanges(s) : \A x \in OpenRanges(s) : o.i <= x.i /\ (x.i = o.i => x.n1 <= o.n1)

\* C28: a body that holds a start time followed by ~ or - and no end time
\* yields a timeRange with that start and an absent end.
C28_StartWithoutEnd ==
    (/\ call.fn = "extractTasksWithTime"
     /\ call.returned
     /\ Occurrences(CallBody, TRUE) = {}
     /\ OpenRanges(CallBody) # {})
        => /\ Len(call.ret) = 1
           /\ call.ret[1].time =
                [has |-> TRUE,
                 start |-> SubSeq(CallBody, FirstOpenRange(CallBody).i,
                                  FirstOpenRange(CallBody).i + FirstOpenRange(CallBody).n1 - 1),
                 end |-> <<>>]

\* C29: every task of the TaskIndex is the task of a line of the note that
\* begins with - [ ] or - [x]; a line that begins otherwise, such as an
\* indented sub-bullet, a blank line or prose, gives no task.
C29_OnlyMarkerLinesBecomeTasks ==
    (call.fn = "parseTasksFromFile" /\ call.returned) =>
        TaskNames(call.ret) \subseteq
            {TaskOfLine(call.arg[j]).task : j \in {x \in DOMAIN call.arg : IsTaskLine(call.arg[x])}}

\* a line that is a marker followed by nothing or only blanks
IsEmptyTaskLine(line) == IsTaskLine(line) /\ Trim(SubSeq(line, Len(OpenMark) + 1, Len(line))) = <<>>

\* the task the claim gives such a line
EmptyTask(line) == [task |-> <<>>, completed |-> StartsWith(line, DoneMark), time |-> NoTime]

\* C30: a task line with a marker and an empty body yields a task with an
\* empty description and the completion state of its marker: called with
\* such a line extractTasksWithTime returns that one task, and a section of a
\* note that holds such lines, and shares its date with no other section, has
\* one such task for each of them.
C30_EmptyBodyYieldsTask ==
    /\ (call.fn = "extractTasksWithTime" /\ call.returned /\ IsEmptyTaskLine(call.arg[1])) =>
        call.ret = <<EmptyTask(call.arg[1])>>
    /\ (call.fn = "parseTasksFromFile" /\ call.returned) =>
        \A i \in HeaderLines(call.arg) :
            (/\ SectionKey(call.arg, i, nowYear) # <<>>
             /\ \A j \in HeaderLines(call.arg) :
                    j # i => SectionKey(call.arg, j, nowYear) # SectionKey(call.arg, i, nowYear)
             /\ SectionLines(call.arg, i) # <<>>
             /\ \A k \in DOMAIN SectionLines(call.arg, i) : IsEmptyTaskLine(SectionLines(call.arg, i)[k]))
                => ObjGet(call.ret, SectionKey(call.arg, i, nowYear))
                    = [k \in DOMAIN SectionLines(call.arg, i) |-> EmptyTask(SectionLines(call.arg, i)[k])]

\* extractTasksWithTime has returned a completed task with an empty
\* description for the line - [x] followed by a blank
C30_Witness ==
    /\ call.fn = "extractTasksWithTime"
    /\ call.returned
    /\ call.arg = <<DoneMark \o <<" ">>>>
    /\ call.ret = <<[task |-> <<>>, completed |-> TRUE, time |-> NoTime]>>

\* the events of a set without the fields the server adds
Shapes(events) == {Shape(e) : e \in events}

\* C31: what a pass with no rejected request does is fixed by the note, the
\* configured year and the set of events on the calendar, whatever the order
\* in which the events are listed and gone through: the events it creates,
\* the events it deletes and the calendar it leaves are the same.
C31_OutcomeIndependentOfOrder ==
    \A i \in DOMAIN done :
        Clean(done[i]) =>
            /\ done[i].st.calBefore \subseteq done[i].updatedEvents
            /\ Shapes(done[i].updatedEvents)
                = CleanAdds(done[i].year, Shapes(done[i].st.calBefore), FlatTasks(done[i].tasksByDate), 1,
                            Shapes(done[i].st.calBefore))
            /\ done[i].st.creates = Cardinality(done[i].updatedEvents \ done[i].st.calBefore)
            /\ done[i].calAfter = {e \in done[i].updatedEvents : ~DeletesEvent(done[i].tasksByDate, e)}
            /\ done[i].st.deletes = Cardinality(done[i].updatedEvents \ done[i].calAfter)

\* a pass with no rejected request has returned that deleted two events, in
\* one of the two orders
C31_Witness ==
    \E i \in DOMAIN done :
        /\ Clean(done[i])
        /\ done[i].st.deletes >= 2
        /\ Cardinality(done[i].updatedEvents \ done[i].calAfter) >= 2

\* call i + 1 began where call i had left the calendar, read the note afresh
\* and fetched the events afresh
StartsAfresh(i) ==
    /\ done[i + 1].st.calBefore = done[i].calAfter
    /\ done[i + 1].tasksByDate = parseTasksFromFile(done[i + 1].st.content, nowYear)
    /\ (done[i + 1].st.lists > 0 /\ done[i + 1].st.result = "ok") =>
        done[i + 1].existingEvents = fetchEventsFromCalendar(done[i].calAfter)

\* C32: every call of syncTasks that is in flight returns; a call made with a
\* calendar selected either runs through both phases or is ended by a rejected
\* events.list, and the call after an ended one starts afresh from the note
\* and the calendar.
C32_PassReturns ==
    /\ \A p \in Triggers : (InFlight(p) ~> pc[p] = "done")
    /\ [](\A i \in DOMAIN done :
            /\ done[i].st.result # "refused" =>
                \/ done[i].st.result = "ok" /\ ~done[i].st.listFailed
                \/ done[i].st.result = "aborted" /\ done[i].st.listFailed
            /\ (done[i].st.result = "aborted" /\ i + 1 \in DOMAIN done) => StartsAfresh(i))

\* a call ended by a rejected events.list has been followed by a call that ran
\* through both phases and created an event
C32_Witness ==
    \E i \in DOMAIN done :
        /\ done[i].st.result = "aborted"
        /\ i + 1 \in DOMAIN done
        /\ done[i + 1].st.result = "ok"
        /\ done[i + 1].st.creates > 0

\* the events on the calendar that call d has returned from which it created
Survivors(d) == {e \in d.calAfter : e.by = d.st.seq}

\* C33: a pass in which no request is rejected and which no other pass
\* overlaps deletes in step 5 none of the events it has created in step 3:
\* every event it has created is on the calendar when it returns.
C33_CreatedNotDeletedInSamePass ==
    \A i \in DOMAIN done : Clean(done[i]) => Cardinality(Survivors(done[i])) = done[i].st.creates

\* the open entries of returned call d that step 3 has skipped because the
\* calendar held, when the call began, an event that the duplicate rule takes
\* for the task
SkippedAsDuplicate(d) ==
    {k \in DOMAIN FlatTasks(d.tasksByDate) :
        /\ ~FlatTasks(d.tasksByDate)[k].t.completed
        /\ k \notin d.st.createdFor
        /\ \E e \in d.st.calBefore :
            Matches(e, FlatTasks(d.tasksByDate)[k].t.task, TargetDateStr(d.year, FlatTasks(d.tasksByDate)[k].date))}

\* C34: when step 3 of a pass skips an open task because an event on the
\* calendar is its duplicate (trimmed summaries equal, same date), step 5 of
\* that pass leaves the task an event: the calendar holds a duplicate of the
\* task when the pass returns.
C34_SkippedTaskKeepsEvent ==
    \A i \in DOMAIN done :
        Clean(done[i]) =>
            \A k \in SkippedAsDuplicate(done[i]) :
                \E e \in done[i].calAfter :
                    Matches(e, FlatTasks(done[i].tasksByDate)[k].t.task,
                            TargetDateStr(done[i].year, FlatTasks(done[i].tasksByDate)[k].date))

\* two calls have been made and have returned, each in flight during the
\* other, each run to its end with no rejected request, and the note was
\* edited once, between their reads of it
TwoOverlappedReturned ==
    /\ started = 2
    /\ Len(done) = 2
    /\ edits = 1
    /\ done[1].st.content # done[2].st.content
    /\ \A i \in 1..2 : done[i].st.overlap /\ done[i].st.result = "ok" /\ done[i].st.failedOps = 0

\* tasksByDate holds an open task that event e is, by the duplicate rule, the event of
OpenTaskOf(tasksByDate, year, e) ==
    \E entry \in OpenEntries(tasksByDate) : Matches(e, entry.t.task, TargetDateStr(year, entry.date))

\* C35: when two overlapping passes have read the note before and after an
\* edit and both have returned with no rejected request, every task that is
\* open in the later text only has an event on the calendar, and no event
\* that the pass holding the earlier text has created is left for a task that
\* the later text does not have open.
C35_LaterTextWins ==
    TwoOverlappedReturned =>
        \A old, new \in 1..2 :
            (done[old].st.content # content /\ done[new].st.content = content) =>
                /\ \A entry \in OpenEntries(done[new].tasksByDate) \ OpenEntries(done[old].tasksByDate) :
                        \E e \in calendar :
                            Matches(e, entry.t.task, TargetDateStr(done[new].year, entry.date))
                /\ \A e \in calendar :
                        e.by = done[old].st.seq => OpenTaskOf(done[new].tasksByDate, done[new].year, e)

\* x and e are events of one description, trimmed, and one date
SamePair(x, e) == Trim(x.summary) = Trim(e.summary) /\ EventDate(x) = EventDate(e)

\* C36: in a pass that no other pass overlaps, an events.insert succeeds
\* only when the pass has not yet created an event of that trimmed
\* description and date, however many open lines of the date carry the
\* description; and no events.insert is issued for a completed task.
C36_OneInsertPerTask ==
    /\ [][\A e \in calendar' \ calendar : ~\E x \in calendar : x.by = e.by /\ SamePair(x, e)]_vars
    /\ [](\A p \in Triggers :
            \A k \in stat[p].createdFor : ~FlatTasks(loc[p].tasksByDate)[k].t.completed)

\* a pass has returned that read two open lines of one description under
\* one date, created an event for the first and none for the second
C36_Witness ==
    \E i \in DOMAIN done :
        /\ Clean(done[i])
        /\ Cardinality(Survivors(done[i])) = 1
        /\ \E k1, k2 \in DOMAIN FlatTasks(done[i].tasksByDate) :
            /\ k1 < k2
            /\ ~FlatTasks(done[i].tasksByDate)[k1].t.completed
            /\ ~FlatTasks(done[i].tasksByDate)[k2].t.completed
            /\ FlatTasks(done[i].tasksByDate)[k1].date = FlatTasks(done[i].tasksByDate)[k2].date
            /\ FlatTasks(done[i].tasksByDate)[k1].t.task = FlatTasks(done[i].tasksByDate)[k2].t.task
            /\ done[i].st.createdFor = {k1}

====
